---- MODULE Spec2Model ----
(***************************************************************************)
(* Model of stream_live_inputs.go: the six Stream Live Input operations of *)
(* the API client.  Every operation validates its identifiers, hands one   *)
(* request to makeRequestContext, and decodes the JSON envelope that comes *)
(* back.  A goroutine calling an operation blocks inside                   *)
(* makeRequestContext, so each operation is split at that call: the part   *)
(* up to the call (or up to an early return), and the part after it.       *)
(***************************************************************************)
EXTENDS Naturals, Sequences, FiniteSets, TLC

(* ------------------------------ bounds --------------------------------- *)

\* Number of goroutines that call the client concurrently (SpecConc).
NumCallers == 2

\* Longest `result` array the server sends back.
MaxItems == 1

Callers == 1..NumCallers

\* The single goroutine of the sequential specification.
Sequential == {1}

(* --------------------------- errors and values ------------------------- *)

Nil == "nil"

ErrMissingAccountID == "required missing account ID"

ErrMissingLiveInputID == "required live input id missing"

\* Errors makeRequestContext can return (transport, HTTP status, API error).
ExecutorErrors == {"transport error", "api error"}

SyntaxError == "json: syntax error"

UnmarshalTypeError == "json: cannot unmarshal"

\* A Go slice is either nil or a (possibly empty) sequence of elements.
NilSlice == [isNil |-> TRUE, elems |-> <<>>]

EmptySlice == [isNil |-> FALSE, elems |-> <<>>]

MakeSlice(s) == [isNil |-> FALSE, elems |-> s]

\* StreamLiveInput{} : the zero value (fields uid and defaultCreator kept).
ZeroStreamLiveInput == [UID |-> "", DefaultCreator |-> ""]

\* StreamLiveInputListItem{} and StreamVideo{} : the zero values (uid kept).
ZeroStreamLiveInputListItem == [UID |-> ""]

ZeroStreamVideo == [UID |-> ""]

(* ------------------------------ JSON ----------------------------------- *)

JStr(s) == [t |-> "str", s |-> s]

JNum(s) == [t |-> "num", s |-> s]

\* Scalar JSON values found in a response; a number where a string is
\* expected makes the decoder report a type error.
JScalars == {JStr("u1"), JNum("7")}

\* JSON objects over the given keys: any subset of the keys may be present.
JObjects(keys) == UNION {[S -> JScalars] : S \in SUBSET keys}

LiveInputKeys == {"uid", "defaultCreator"}

ItemKeys == {"uid"}

SeqsUpTo(S, n) == UNION {[1..k -> S] : k \in 0..n}

\* What the envelope holds under "result".
JResults ==
    {[kind |-> "absent"], [kind |-> "null"]}
    \cup {[kind |-> "object", fields |-> o] : o \in JObjects(LiveInputKeys)}
    \cup {[kind |-> "array", elems |-> a] : a \in SeqsUpTo(JObjects(ItemKeys), MaxItems)}

\* A response body: the text is either valid JSON, or it breaks off after
\* the part described by `result` has been read.
Bodies == [valid : BOOLEAN, result : JResults]

NoBody == [none |-> TRUE]

\* What makeRequestContext returns: (bytes, nil) or (nil, err).
Responses ==
    {[res |-> b, err |-> Nil] : b \in Bodies}
    \cup {[res |-> NoBody, err |-> e] : e \in ExecutorErrors}

StringField(o, k) == IF k \in DOMAIN o /\ o[k].t = "str" THEN o[k].s ELSE ""

HasTypeError(o, keys) == \E k \in keys \cap DOMAIN o : o[k].t # "str"

DecodeStreamLiveInput(o) ==
    [UID |-> StringField(o, "uid"), DefaultCreator |-> StringField(o, "defaultCreator")]

DecodeStreamLiveInputListItem(o) == [UID |-> StringField(o, "uid")]

DecodeStreamVideo(o) == [UID |-> StringField(o, "uid")]

DecodeError(body, typeError) ==
    IF ~body.valid THEN SyntaxError
    ELSE IF typeError THEN UnmarshalTypeError
    ELSE Nil

\* json.Unmarshal(res, &streamListResponse) for StreamLiveInputResponse:
\* Result is what the decoder has stored in the target when it returns.
UnmarshalStreamLiveInputResponse(body) ==
    LET r == body.result IN
    CASE r.kind = "object" ->
            [Result |-> DecodeStreamLiveInput(r.fields),
             err |-> DecodeError(body, HasTypeError(r.fields, LiveInputKeys))]
      [] r.kind = "array" ->
            [Result |-> ZeroStreamLiveInput, err |-> DecodeError(body, TRUE)]
      [] OTHER ->
            [Result |-> ZeroStreamLiveInput, err |-> DecodeError(body, FALSE)]

\* json.Unmarshal for StreamLiveInputsListResponse.
UnmarshalStreamLiveInputsListResponse(body) ==
    LET r == body.result IN
    CASE r.kind = "array" ->
            [Result |-> MakeSlice([i \in DOMAIN r.elems |->
                                      DecodeStreamLiveInputListItem(r.elems[i])]),
             err |-> DecodeError(body,
                        \E i \in DOMAIN r.elems : HasTypeError(r.elems[i], ItemKeys))]
      [] r.kind = "object" ->
            [Result |-> NilSlice, err |-> DecodeError(body, TRUE)]
      [] OTHER ->
            [Result |-> NilSlice, err |-> DecodeError(body, FALSE)]

\* json.Unmarshal for StreamListResponse (Result []StreamVideo).
UnmarshalStreamListResponse(body) ==
    LET r == body.result IN
    CASE r.kind = "array" ->
            [Result |-> MakeSlice([i \in DOMAIN r.elems |->
                                      DecodeStreamVideo(r.elems[i])]),
             err |-> DecodeError(body,
                        \E i \in DOMAIN r.elems : HasTypeError(r.elems[i], ItemKeys))]
      [] r.kind = "object" ->
            [Result |-> NilSlice, err |-> DecodeError(body, TRUE)]
      [] OTHER ->
            [Result |-> NilSlice, err |-> DecodeError(body, FALSE)]

(* --------------------------- parameter structs ------------------------- *)

AccountIDs == {"", "acct1", "acct2"}

LiveInputIDs == {"", "li1", "li2"}

Creators == {"", "creator1"}

ListStreamLiveInputsParameters(accounts) ==
    [AccountID : accounts, IncludeCounts : BOOLEAN]

CreateStreamLiveInputParameters(accounts) ==
    [AccountID : accounts, DefaultCreator : Creators]

StreamLiveInputParameters(accounts, ids) ==
    [AccountID : accounts, LiveInputID : ids]

UpdateStreamLiveInputParameters(accounts, ids) ==
    [AccountID : accounts, LiveInputID : ids, DefaultCreator : Creators]

NoOptions == [none |-> TRUE]

NoRequest == [none |-> TRUE]

NoResponse == [none |-> TRUE]

NoReturn == [none |-> TRUE]

\* The nil body of a request, and the absent result of DeleteStreamLiveInput.
NilBody == [nil |-> TRUE]

NoResult == [void |-> TRUE]

(* ------------------------------ URIs ----------------------------------- *)

\* buildURI(path, options): the tagged fields of options as a query string
\* appended to path; include_counts carries omitempty.
buildURI(path, options) ==
    IF options.IncludeCounts THEN path \o "?include_counts=true" ELSE path

\* fmt.Sprintf("/accounts/%s/stream/live_inputs", AccountID)
LiveInputsPath(account) == "/accounts/" \o account \o "/stream/live_inputs"

\* fmt.Sprintf("/accounts/%s/stream/live_inputs/%s", AccountID, LiveInputID)
LiveInputPath(account, id) ==
    "/accounts/" \o account \o "/stream/live_inputs/" \o id

\* fmt.Sprintf("/accounts/%s/stream/live_inputs/%s/videos", AccountID, LiveInputID)
LiveInputVideosPath(account, id) ==
    "/accounts/" \o account \o "/stream/live_inputs/" \o id \o "/videos"

Return(result, err, n) ==
    [result |-> result, err |-> err, unmarshals |-> n]

(* ------------------------ ListStreamLiveInputs ------------------------- *)

\* The return taken before any request is made, or NoReturn.
ListStreamLiveInputsEarly(options) ==
    IF options.AccountID = "" THEN Return(NilSlice, ErrMissingAccountID, 0)
    ELSE NoReturn

ListStreamLiveInputsRequest(options) ==
    [method |-> "GET",
     uri |-> buildURI(LiveInputsPath(options.AccountID), options),
     body |-> NilBody]

\* The return taken once makeRequestContext has returned (res, err).
\* Variant: an executor error is swallowed.
ListStreamLiveInputsFinishSwallow(response) ==
    IF response.err # Nil THEN Return(EmptySlice, Nil, 0)
    ELSE LET d == UnmarshalStreamLiveInputsListResponse(response.res) IN
         IF d.err # Nil THEN Return(EmptySlice, d.err, 1)
         ELSE Return(d.Result, Nil, 1)

\* Variant: the decoded result is dropped and an empty list returned.
ListStreamLiveInputsFinishDropResult(response) ==
    IF response.err # Nil THEN Return(EmptySlice, response.err, 0)
    ELSE LET d == UnmarshalStreamLiveInputsListResponse(response.res) IN
         IF d.err # Nil THEN Return(EmptySlice, d.err, 1)
         ELSE Return(EmptySlice, Nil, 1)

ListStreamLiveInputsFinish(response) ==
    IF response.err # Nil THEN Return(EmptySlice, response.err, 0)
    ELSE LET d == UnmarshalStreamLiveInputsListResponse(response.res) IN
         IF d.err # Nil THEN Return(EmptySlice, d.err, 1)
         ELSE Return(d.Result, Nil, 1)

(* ------------------------ CreateStreamLiveInput ------------------------ *)

CreateStreamLiveInputEarly(options) ==
    IF options.AccountID = "" THEN Return(ZeroStreamLiveInput, ErrMissingAccountID, 0)
    ELSE NoReturn

CreateStreamLiveInputRequest(options) ==
    [method |-> "POST",
     uri |-> LiveInputsPath(options.AccountID),
     body |-> options]

\* Variant: on a decode error the partly filled result is returned.
CreateStreamLiveInputFinishPartial(response) ==
    IF response.err # Nil THEN Return(ZeroStreamLiveInput, response.err, 0)
    ELSE LET d == UnmarshalStreamLiveInputResponse(response.res) IN
         IF d.err # Nil THEN Return(d.Result, d.err, 1)
         ELSE Return(d.Result, Nil, 1)

CreateStreamLiveInputFinish(response) ==
    IF response.err # Nil THEN Return(ZeroStreamLiveInput, response.err, 0)
    ELSE LET d == UnmarshalStreamLiveInputResponse(response.res) IN
         IF d.err # Nil THEN Return(ZeroStreamLiveInput, d.err, 1)
         ELSE Return(d.Result, Nil, 1)

(* ------------------------ DeleteStreamLiveInput ------------------------ *)

\* Variant: the account check is missing.
DeleteStreamLiveInputEarlyNoAccountCheck(options) ==
    IF options.LiveInputID = "" THEN Return(NoResult, ErrMissingLiveInputID, 0)
    ELSE NoReturn

DeleteStreamLiveInputEarly(options) ==
    IF options.AccountID = "" THEN Return(NoResult, ErrMissingAccountID, 0)
    ELSE IF options.LiveInputID = "" THEN Return(NoResult, ErrMissingLiveInputID, 0)
    ELSE NoReturn

\* Variant: the URI of the videos listing is used.
DeleteStreamLiveInputRequestWrongPath(options) ==
    [method |-> "DELETE",
     uri |-> LiveInputVideosPath(options.AccountID, options.LiveInputID),
     body |-> options]

DeleteStreamLiveInputRequest(options) ==
    [method |-> "DELETE",
     uri |-> LiveInputPath(options.AccountID, options.LiveInputID),
     body |-> options]

\* The response bytes are discarded; nothing is decoded.
DeleteStreamLiveInputFinish(response) ==
    IF response.err # Nil THEN Return(NoResult, response.err, 0)
    ELSE Return(NoResult, Nil, 0)

(* -------------------------- GetStreamLiveInput ------------------------- *)

\* Variant: the two checks are made in the opposite order.
GetStreamLiveInputEarlySwapped(options) ==
    IF options.LiveInputID = ""
    THEN Return(ZeroStreamLiveInput, ErrMissingLiveInputID, 0)
    ELSE IF options.AccountID = ""
         THEN Return(ZeroStreamLiveInput, ErrMissingAccountID, 0)
    ELSE NoReturn

GetStreamLiveInputEarly(options) ==
    IF options.AccountID = "" THEN Return(ZeroStreamLiveInput, ErrMissingAccountID, 0)
    ELSE IF options.LiveInputID = ""
         THEN Return(ZeroStreamLiveInput, ErrMissingLiveInputID, 0)
    ELSE NoReturn

GetStreamLiveInputRequest(options) ==
    [method |-> "POST",
     uri |-> LiveInputPath(options.AccountID, options.LiveInputID),
     body |-> options]

\* Variant: the error of json.Unmarshal is ignored.
GetStreamLiveInputFinishIgnoreDecode(response) ==
    IF response.err # Nil THEN Return(ZeroStreamLiveInput, response.err, 0)
    ELSE LET d == UnmarshalStreamLiveInputResponse(response.res) IN
         Return(d.Result, Nil, 1)

GetStreamLiveInputFinish(response) ==
    IF response.err # Nil THEN Return(ZeroStreamLiveInput, response.err, 0)
    ELSE LET d == UnmarshalStreamLiveInputResponse(response.res) IN
         IF d.err # Nil THEN Return(ZeroStreamLiveInput, d.err, 1)
         ELSE Return(d.Result, Nil, 1)

(* ------------------------ UpdateStreamLiveInput ------------------------ *)

\* Variant: the live input check is missing.
UpdateStreamLiveInputEarlyNoIDCheck(options) ==
    IF options.AccountID = "" THEN Return(ZeroStreamLiveInput, ErrMissingAccountID, 0)
    ELSE NoReturn

UpdateStreamLiveInputEarly(options) ==
    IF options.AccountID = "" THEN Return(ZeroStreamLiveInput, ErrMissingAccountID, 0)
    ELSE IF options.LiveInputID = ""
         THEN Return(ZeroStreamLiveInput, ErrMissingLiveInputID, 0)
    ELSE NoReturn

UpdateStreamLiveInputRequest(options) ==
    [method |-> "PUT",
     uri |-> LiveInputPath(options.AccountID, options.LiveInputID),
     body |-> options]

UpdateStreamLiveInputFinish(response) ==
    IF response.err # Nil THEN Return(ZeroStreamLiveInput, response.err, 0)
    ELSE LET d == UnmarshalStreamLiveInputResponse(response.res) IN
         IF d.err # Nil THEN Return(ZeroStreamLiveInput, d.err, 1)
         ELSE Return(d.Result, Nil, 1)

(* ---------------------- ListStreamLiveInputVideos ---------------------- *)

ListStreamLiveInputVideosEarly(options) ==
    IF options.AccountID = "" THEN Return(EmptySlice, ErrMissingAccountID, 0)
    ELSE IF options.LiveInputID = "" THEN Return(EmptySlice, ErrMissingLiveInputID, 0)
    ELSE NoReturn

ListStreamLiveInputVideosRequest(options) ==
    [method |-> "POST",
     uri |-> LiveInputVideosPath(options.AccountID, options.LiveInputID),
     body |-> options]

ListStreamLiveInputVideosFinish(response) ==
    IF response.err # Nil THEN Return(EmptySlice, response.err, 0)
    ELSE LET d == UnmarshalStreamListResponse(response.res) IN
         IF d.err # Nil THEN Return(EmptySlice, d.err, 1)
         ELSE Return(d.Result, Nil, 1)

(* ------------------------------- state --------------------------------- *)

VARIABLES
    pc,          \* per goroutine: "idle", "waiting", "responded", "done"
    op,          \* the operation the goroutine is in
    options,     \* the parameter struct it was called with
    request,     \* (method, uri, body) handed to makeRequestContext
    execCalls,   \* calls of makeRequestContext made by this invocation
    response,    \* (res, err) makeRequestContext returned
    unmarshals,  \* calls of json.Unmarshal made by this invocation
    ret          \* (result, err) the operation returned

vars == <<pc, op, options, request, execCalls, response, unmarshals, ret>>

Init ==
    /\ pc = [c \in Callers |-> "idle"]
    /\ op = [c \in Callers |-> "none"]
    /\ options = [c \in Callers |-> NoOptions]
    /\ request = [c \in Callers |-> NoRequest]
    /\ execCalls = [c \in Callers |-> 0]
    /\ response = [c \in Callers |-> NoResponse]
    /\ unmarshals = [c \in Callers |-> 0]
    /\ ret = [c \in Callers |-> NoReturn]

\* Variant: the request under construction is kept in one place shared by
\* all goroutines instead of in a local of the call.
EnterShared(c, name, opts, early, req) ==
    /\ pc[c] = "idle"
    /\ op' = [op EXCEPT ![c] = name]
    /\ options' = [options EXCEPT ![c] = opts]
    /\ IF early # NoReturn
       THEN /\ pc' = [pc EXCEPT ![c] = "done"]
            /\ ret' = [ret EXCEPT ![c] = [result |-> early.result, err |-> early.err]]
            /\ UNCHANGED <<request, execCalls>>
       ELSE /\ pc' = [pc EXCEPT ![c] = "waiting"]
            /\ request' = [d \in Callers |->
                              IF d = c \/ request[d] # NoRequest THEN req
                              ELSE request[d]]
            /\ execCalls' = [execCalls EXCEPT ![c] = @ + 1]
            /\ UNCHANGED ret
    /\ UNCHANGED <<response, unmarshals>>

\* Entry of an operation: either the early return, or the request is handed
\* to makeRequestContext and the goroutine blocks in it.
Enter(c, name, opts, early, req) ==
    /\ pc[c] = "idle"
    /\ op' = [op EXCEPT ![c] = name]
    /\ options' = [options EXCEPT ![c] = opts]
    /\ IF early # NoReturn
       THEN /\ pc' = [pc EXCEPT ![c] = "done"]
            /\ ret' = [ret EXCEPT ![c] = [result |-> early.result, err |-> early.err]]
            /\ UNCHANGED <<request, execCalls>>
       ELSE /\ pc' = [pc EXCEPT ![c] = "waiting"]
            /\ request' = [request EXCEPT ![c] = req]
            /\ execCalls' = [execCalls EXCEPT ![c] = @ + 1]
            /\ UNCHANGED ret
    /\ UNCHANGED <<response, unmarshals>>

\* The rest of an operation, after makeRequestContext has returned.
Resume(c, name, fin) ==
    /\ pc[c] = "responded"
    /\ op[c] = name
    /\ pc' = [pc EXCEPT ![c] = "done"]
    /\ ret' = [ret EXCEPT ![c] = [result |-> fin.result, err |-> fin.err]]
    /\ unmarshals' = [unmarshals EXCEPT ![c] = @ + fin.unmarshals]
    /\ UNCHANGED <<op, options, request, execCalls, response>>

ListStreamLiveInputsCall(c, opts) ==
    Enter(c, "ListStreamLiveInputs", opts,
          ListStreamLiveInputsEarly(opts), ListStreamLiveInputsRequest(opts))

ListStreamLiveInputsReturn(c) ==
    Resume(c, "ListStreamLiveInputs", ListStreamLiveInputsFinish(response[c]))

CreateStreamLiveInputCall(c, opts) ==
    Enter(c, "CreateStreamLiveInput", opts,
          CreateStreamLiveInputEarly(opts), CreateStreamLiveInputRequest(opts))

CreateStreamLiveInputReturn(c) ==
    Resume(c, "CreateStreamLiveInput", CreateStreamLiveInputFinish(response[c]))

DeleteStreamLiveInputCall(c, opts) ==
    Enter(c, "DeleteStreamLiveInput", opts,
          DeleteStreamLiveInputEarly(opts), DeleteStreamLiveInputRequest(opts))

DeleteStreamLiveInputReturn(c) ==
    Resume(c, "DeleteStreamLiveInput", DeleteStreamLiveInputFinish(response[c]))

GetStreamLiveInputCall(c, opts) ==
    Enter(c, "GetStreamLiveInput", opts,
          GetStreamLiveInputEarly(opts), GetStreamLiveInputRequest(opts))

GetStreamLiveInputReturn(c) ==
    Resume(c, "GetStreamLiveInput", GetStreamLiveInputFinish(response[c]))

UpdateStreamLiveInputCall(c, opts) ==
    Enter(c, "UpdateStreamLiveInput", opts,
          UpdateStreamLiveInputEarly(opts), UpdateStreamLiveInputRequest(opts))

UpdateStreamLiveInputReturn(c) ==
    Resume(c, "UpdateStreamLiveInput", UpdateStreamLiveInputFinish(response[c]))

ListStreamLiveInputVideosCall(c, opts) ==
    Enter(c, "ListStreamLiveInputVideos", opts,
          ListStreamLiveInputVideosEarly(opts), ListStreamLiveInputVideosRequest(opts))

ListStreamLiveInputVideosReturn(c) ==
    Resume(c, "ListStreamLiveInputVideos", ListStreamLiveInputVideosFinish(response[c]))

\* The shared request executor answers the request of goroutine c.
makeRequestContext(c, resp) ==
    /\ pc[c] = "waiting"
    /\ pc' = [pc EXCEPT ![c] = "responded"]
    /\ response' = [response EXCEPT ![c] = resp]
    /\ UNCHANGED <<op, options, request, execCalls, unmarshals, ret>>

\* The caller takes the returned values; the goroutine may call again.
CallerContinues(c) ==
    /\ pc[c] = "done"
    /\ pc' = [pc EXCEPT ![c] = "idle"]
    /\ op' = [op EXCEPT ![c] = "none"]
    /\ options' = [options EXCEPT ![c] = NoOptions]
    /\ request' = [request EXCEPT ![c] = NoRequest]
    /\ execCalls' = [execCalls EXCEPT ![c] = 0]
    /\ response' = [response EXCEPT ![c] = NoResponse]
    /\ unmarshals' = [unmarshals EXCEPT ![c] = 0]
    /\ ret' = [ret EXCEPT ![c] = NoReturn]

\* Any step goroutine c can take, with inputs and responses drawn from the
\* given sets.
Step(c, accounts, ids, responses) ==
    \/ \E o \in ListStreamLiveInputsParameters(accounts) :
           ListStreamLiveInputsCall(c, o)
    \/ ListStreamLiveInputsReturn(c)
    \/ \E o \in CreateStreamLiveInputParameters(accounts) :
           CreateStreamLiveInputCall(c, o)
    \/ CreateStreamLiveInputReturn(c)
    \/ \E o \in StreamLiveInputParameters(accounts, ids) :
           DeleteStreamLiveInputCall(c, o)
    \/ DeleteStreamLiveInputReturn(c)
    \/ \E o \in StreamLiveInputParameters(accounts, ids) :
           GetStreamLiveInputCall(c, o)
    \/ GetStreamLiveInputReturn(c)
    \/ \E o \in UpdateStreamLiveInputParameters(accounts, ids) :
           UpdateStreamLiveInputCall(c, o)
    \/ UpdateStreamLiveInputReturn(c)
    \/ \E o \in StreamLiveInputParameters(accounts, ids) :
           ListStreamLiveInputVideosCall(c, o)
    \/ ListStreamLiveInputVideosReturn(c)
    \/ \E r \in responses : makeRequestContext(c, r)
    \/ CallerContinues(c)

\* One goroutine, the full input domain.
Next == \E c \in Sequential : Step(c, AccountIDs, LiveInputIDs, Responses)

Spec == Init /\ [][Next]_vars

\* Inputs and responses of the concurrent specification.
ConcAccountIDs == {"", "acct1"}

ConcLiveInputIDs == {"", "li1"}

ConcResponses ==
    {[res |-> NoBody, err |-> "transport error"],
     [res |-> [valid |-> FALSE, result |-> [kind |-> "absent"]], err |-> Nil],
     [res |-> [valid |-> TRUE,
               result |-> [kind |-> "object", fields |-> [k \in {"uid"} |-> JStr("u1")]]],
      err |-> Nil],
     [res |-> [valid |-> TRUE,
               result |-> [kind |-> "array",
                           elems |-> <<[k \in {"uid"} |-> JStr("u1")]>>]],
      err |-> Nil]}

\* NumCallers goroutines calling the client concurrently.
NextConc == \E c \in Callers : Step(c, ConcAccountIDs, ConcLiveInputIDs, ConcResponses)

SpecConc == Init /\ [][NextConc]_vars

(* ------------------------------ properties ----------------------------- *)

AllOps ==
    {"ListStreamLiveInputs", "CreateStreamLiveInput", "GetStreamLiveInput",
     "UpdateStreamLiveInput", "DeleteStreamLiveInput", "ListStreamLiveInputVideos"}

ResourceOps ==
    {"GetStreamLiveInput", "UpdateStreamLiveInput", "DeleteStreamLiveInput",
     "ListStreamLiveInputVideos"}

ListOps == {"ListStreamLiveInputs", "ListStreamLiveInputVideos"}

SingleOps == {"CreateStreamLiveInput", "GetStreamLiveInput", "UpdateStreamLiveInput"}

InCall(c) == op[c] \in AllOps

Done(c) == pc[c] = "done"

PassesValidation(c) ==
    /\ InCall(c)
    /\ options[c].AccountID # ""
    /\ op[c] \in ResourceOps => options[c].LiveInputID # ""

\* The executor answered with bytes and no error.
GotBody(c) == Done(c) /\ response[c] # NoResponse /\ response[c].err = Nil

\* C1: in each of the six operations a call with an empty AccountID returns
\* ErrMissingAccountID and never invokes makeRequestContext, whatever the
\* other parameters are.
C1_EmptyAccountID ==
    \A c \in Callers :
        (InCall(c) /\ options[c].AccountID = "") =>
            /\ Done(c)
            /\ ret[c].err = ErrMissingAccountID
            /\ execCalls[c] = 0
            /\ request[c] = NoRequest
            /\ response[c] = NoResponse

C1_Witness ==
    \E c \in Callers :
        /\ Done(c)
        /\ op[c] = "UpdateStreamLiveInput"
        /\ options[c].AccountID = ""
        /\ options[c].LiveInputID = "li1"
        /\ options[c].DefaultCreator = "creator1"
        /\ ret[c].err = ErrMissingAccountID

\* C2: in each resource-scoped operation (Get, Update, Delete, List-videos)
\* a call with a non-empty AccountID and an empty LiveInputID returns
\* ErrMissingLiveInputID and never invokes makeRequestContext.
C2_EmptyLiveInputID ==
    \A c \in Callers :
        (op[c] \in ResourceOps /\ options[c].AccountID # ""
            /\ options[c].LiveInputID = "") =>
            /\ Done(c)
            /\ ret[c].err = ErrMissingLiveInputID
            /\ execCalls[c] = 0
            /\ request[c] = NoRequest
            /\ response[c] = NoResponse

C2_Witness ==
    \E c \in Callers :
        /\ Done(c)
        /\ op[c] = "GetStreamLiveInput"
        /\ options[c].AccountID = "acct2"
        /\ options[c].LiveInputID = ""
        /\ ret[c].err = ErrMissingLiveInputID

\* C3: on any error (precondition, executor or decode error) the
\* list-returning operations ListStreamLiveInputs and
\* ListStreamLiveInputVideos return an empty sequence that is not nil.
C3_ListErrorReturnsEmptyNonNil ==
    \A c \in Callers :
        (Done(c) /\ op[c] \in ListOps /\ ret[c].err # Nil) =>
            ret[c].result = EmptySlice

\* C4: on any error the single-resource operations Create, Get and Update
\* return the zero StreamLiveInput; a non-zero result comes only with a nil
\* error.
C4_SingleErrorReturnsZero ==
    \A c \in Callers :
        (Done(c) /\ op[c] \in SingleOps) =>
            /\ ret[c].err # Nil => ret[c].result = ZeroStreamLiveInput
            /\ ret[c].result # ZeroStreamLiveInput => ret[c].err = Nil

\* The decoder had stored part of the result when it reported the error.
C4_Witness ==
    \E c \in Callers :
        /\ GotBody(c)
        /\ op[c] = "CreateStreamLiveInput"
        /\ ret[c].err = UnmarshalTypeError
        /\ UnmarshalStreamLiveInputResponse(response[c].res).Result
               # ZeroStreamLiveInput
        /\ ret[c].result = ZeroStreamLiveInput

Malformed(c) == GotBody(c) /\ ~response[c].res.valid

\* C5 (as stated): in every one of the six operations, when validation
\* passes and the executor succeeds with a body that is malformed JSON, the
\* operation returns a non-nil decode error.
C5_MalformedIsDecodeErrorAllSix ==
    \A c \in Callers : Malformed(c) => ret[c].err # Nil

\* C5 (amended): the five operations that decode the response (List, Create,
\* Get, Update, List-videos) return a non-nil decode error on a malformed
\* body; DeleteStreamLiveInput discards the body and returns nil.
C5_MalformedIsDecodeError ==
    \A c \in Callers :
        Malformed(c) =>
            IF op[c] = "DeleteStreamLiveInput"
            THEN ret[c].err = Nil /\ unmarshals[c] = 0
            ELSE ret[c].err = SyntaxError /\ unmarshals[c] = 1

C5_Witness ==
    \E c \in Callers :
        /\ Malformed(c)
        /\ op[c] = "GetStreamLiveInput"
        /\ response[c].res.result.kind = "object"
        /\ ret[c].err = SyntaxError

\* C6: every call that passes validation invokes the executor with the fixed
\* method, path and body of its operation: List GET on
\* /accounts/{account}/stream/live_inputs (plus the include_counts query)
\* with no body; Create POST on the same path with the create parameters;
\* Update PUT, Delete DELETE and Get POST on
\* /accounts/{account}/stream/live_inputs/{id}; List-videos POST on
\* /accounts/{account}/stream/live_inputs/{id}/videos; Get, Update, Delete
\* and List-videos pass their parameter struct as body.
C6_FixedRequest ==
    \A c \in Callers :
        PassesValidation(c) =>
            LET a == options[c].AccountID
                r == request[c]
                base == "/accounts/" \o a \o "/stream/live_inputs"
            IN  /\ execCalls[c] = 1
                /\ r # NoRequest
                /\ op[c] = "ListStreamLiveInputs" =>
                       /\ r.method = "GET"
                       /\ r.body = NilBody
                       /\ r.uri = IF options[c].IncludeCounts
                                  THEN base \o "?include_counts=true"
                                  ELSE base
                /\ op[c] = "CreateStreamLiveInput" =>
                       r = [method |-> "POST", uri |-> base, body |-> options[c]]
                /\ op[c] = "UpdateStreamLiveInput" =>
                       r = [method |-> "PUT",
                            uri |-> base \o "/" \o options[c].LiveInputID,
                            body |-> options[c]]
                /\ op[c] = "DeleteStreamLiveInput" =>
                       r = [method |-> "DELETE",
                            uri |-> base \o "/" \o options[c].LiveInputID,
                            body |-> options[c]]
                /\ op[c] = "GetStreamLiveInput" =>
                       r = [method |-> "POST",
                            uri |-> base \o "/" \o options[c].LiveInputID,
                            body |-> options[c]]
                /\ op[c] = "ListStreamLiveInputVideos" =>
                       r = [method |-> "POST",
                            uri |-> base \o "/" \o options[c].LiveInputID \o "/videos",
                            body |-> options[c]]
                /\ (op[c] \in {"UpdateStreamLiveInput", "DeleteStreamLiveInput"}
                        /\ a = "acct1" /\ options[c].LiveInputID = "li1") =>
                       r.uri = "/accounts/acct1/stream/live_inputs/li1"

C6_Witness ==
    \E c \in Callers :
        /\ pc[c] = "waiting"
        /\ op[c] = "DeleteStreamLiveInput"
        /\ options[c] = [AccountID |-> "acct1", LiveInputID |-> "li1"]
        /\ request[c] = [method |-> "DELETE",
                         uri |-> "/accounts/acct1/stream/live_inputs/li1",
                         body |-> [AccountID |-> "acct1", LiveInputID |-> "li1"]]

\* C7: nothing is retried or swallowed: one invocation calls the executor at
\* most once, exactly once when validation passes, and an executor error is
\* returned unchanged without any attempt to decode a response.
C7_NoRetryNoSwallow ==
    \A c \in Callers :
        /\ execCalls[c] <= 1
        /\ PassesValidation(c) => execCalls[c] = 1
        /\ (Done(c) /\ response[c] # NoResponse /\ response[c].err # Nil) =>
               /\ ret[c].err = response[c].err
               /\ unmarshals[c] = 0
               /\ execCalls[c] = 1

C7_Witness ==
    \E c \in Callers :
        /\ Done(c)
        /\ op[c] = "ListStreamLiveInputs"
        /\ response[c] # NoResponse
        /\ response[c].err = "api error"
        /\ ret[c].err = "api error"

\* The body is a well-formed envelope for the operation: valid JSON whose
\* result has the kind the operation expects and fields of the right type.
WellFormedEnvelope(c) ==
    /\ GotBody(c)
    /\ response[c].res.valid
    /\ LET r == response[c].res.result IN
          \/ /\ op[c] \in SingleOps
             /\ r.kind = "object"
             /\ \A k \in DOMAIN r.fields : r.fields[k].t = "str"
          \/ /\ op[c] \in ListOps
             /\ r.kind = "array"
             /\ \A i \in DOMAIN r.elems :
                    \A k \in DOMAIN r.elems[i] : r.elems[i][k].t = "str"

Payload(o, k) == IF k \in DOMAIN o THEN o[k].s ELSE ""

\* C8: when validation passes, the executor succeeds and the body is a
\* well-formed envelope, the operation returns a nil error and the value of
\* the envelope's result (Create, Get, Update: the object; List and
\* List-videos: the sequence); a List result that is an empty array gives
\* an empty sequence and no error.
C8_ReturnsEnvelopeResult ==
    \A c \in Callers :
        WellFormedEnvelope(c) =>
            LET r == response[c].res.result IN
            /\ ret[c].err = Nil
            /\ op[c] \in SingleOps =>
                   /\ ret[c].result.UID = Payload(r.fields, "uid")
                   /\ ret[c].result.DefaultCreator = Payload(r.fields, "defaultCreator")
            /\ op[c] \in ListOps =>
                   /\ ~ret[c].result.isNil
                   /\ Len(ret[c].result.elems) = Len(r.elems)
                   /\ \A i \in DOMAIN r.elems :
                          ret[c].result.elems[i].UID = Payload(r.elems[i], "uid")
                   /\ r.elems = <<>> => ret[c].result = EmptySlice

C8_Witness ==
    \E c \in Callers :
        /\ WellFormedEnvelope(c)
        /\ op[c] = "ListStreamLiveInputs"
        /\ response[c].res.result.elems = <<>>
        /\ ret[c] = [result |-> EmptySlice, err |-> Nil]

C8_WitnessObject ==
    \E c \in Callers :
        /\ WellFormedEnvelope(c)
        /\ op[c] = "CreateStreamLiveInput"
        /\ ret[c].result = [UID |-> "u1", DefaultCreator |-> "u1"]

EarlyOf(name, o) ==
    CASE name = "ListStreamLiveInputs" -> ListStreamLiveInputsEarly(o)
      [] name = "CreateStreamLiveInput" -> CreateStreamLiveInputEarly(o)
      [] name = "DeleteStreamLiveInput" -> DeleteStreamLiveInputEarly(o)
      [] name = "GetStreamLiveInput" -> GetStreamLiveInputEarly(o)
      [] name = "UpdateStreamLiveInput" -> UpdateStreamLiveInputEarly(o)
      [] name = "ListStreamLiveInputVideos" -> ListStreamLiveInputVideosEarly(o)

RequestOf(name, o) ==
    CASE name = "ListStreamLiveInputs" -> ListStreamLiveInputsRequest(o)
      [] name = "CreateStreamLiveInput" -> CreateStreamLiveInputRequest(o)
      [] name = "DeleteStreamLiveInput" -> DeleteStreamLiveInputRequest(o)
      [] name = "GetStreamLiveInput" -> GetStreamLiveInputRequest(o)
      [] name = "UpdateStreamLiveInput" -> UpdateStreamLiveInputRequest(o)
      [] name = "ListStreamLiveInputVideos" -> ListStreamLiveInputVideosRequest(o)

FinishOf(name, r) ==
    CASE name = "ListStreamLiveInputs" -> ListStreamLiveInputsFinish(r)
      [] name = "CreateStreamLiveInput" -> CreateStreamLiveInputFinish(r)
      [] name = "DeleteStreamLiveInput" -> DeleteStreamLiveInputFinish(r)
      [] name = "GetStreamLiveInput" -> GetStreamLiveInputFinish(r)
      [] name = "UpdateStreamLiveInput" -> UpdateStreamLiveInputFinish(r)
      [] name = "ListStreamLiveInputVideos" -> ListStreamLiveInputVideosFinish(r)

Outcome(r) == [result |-> r.result, err |-> r.err]

\* What goroutine c holds is what its own invocation, run alone, produces
\* from its own parameters and from the response to its own request.
OwnOutcome(c) ==
    InCall(c) =>
        IF EarlyOf(op[c], options[c]) # NoReturn
        THEN /\ Done(c)
             /\ ret[c] = Outcome(EarlyOf(op[c], options[c]))
             /\ request[c] = NoRequest
        ELSE /\ request[c] = RequestOf(op[c], options[c])
             /\ Done(c) => ret[c] = Outcome(FinishOf(op[c], response[c]))

Locals(c) ==
    <<op[c], options[c], request[c], execCalls[c], response[c], unmarshals[c], ret[c]>>

\* C9: calls are independent under concurrency: in every interleaving of
\* concurrent invocations a step of one goroutine leaves what every other
\* invocation holds untouched, and each invocation's request, result and
\* error are those determined by its own parameters and by the response to
\* its own request.
C9_Independent ==
    [][\A c \in Callers :
           /\ pc'[c] = pc[c] => Locals(c)' = Locals(c)
           /\ OwnOutcome(c)']_vars

\* Two invocations are in flight at once and the other one has finished.
C9_Witness ==
    \E c, d \in Callers :
        /\ c # d
        /\ pc[c] = "done" /\ op[c] = "GetStreamLiveInput"
        /\ ret[c] = [result |-> [UID |-> "u1", DefaultCreator |-> ""], err |-> Nil]
        /\ pc[d] = "responded" /\ op[d] = "GetStreamLiveInput"
        /\ options[d] = options[c]
        /\ response[d] # response[c]

\* C10: the account-id check comes first: a resource-scoped call with both
\* identifiers empty returns ErrMissingAccountID, and ErrMissingLiveInputID
\* is returned only when AccountID is non-empty.
C10_AccountCheckFirst ==
    \A c \in Callers :
        (Done(c) /\ op[c] \in ResourceOps) =>
            /\ (options[c].AccountID = "" /\ options[c].LiveInputID = "") =>
                   ret[c].err = ErrMissingAccountID
            /\ ret[c].err = ErrMissingLiveInputID => options[c].AccountID # ""

C10_Witness ==
    \E c \in Callers :
        /\ Done(c)
        /\ op[c] = "ListStreamLiveInputVideos"
        /\ options[c] = [AccountID |-> "", LiveInputID |-> ""]
        /\ ret[c].err = ErrMissingAccountID

====
